---- MODULE Spec2Model ----
(***************************************************************************)
(* A model of recall (HerrPixel/recall): the navigation state machine of   *)
(* src/src/app.rs, the main loop and key dispatch of src/src/main.rs and   *)
(* the table layout of src/src/ui.rs.                                      *)
(*                                                                         *)
(* Rust strings that are measured or compared (names, tokens) are          *)
(* sequences of characters, a character being a one-letter string or the   *)
(* name of a code point ("U+65E5").                                        *)
(* Vec indices are 0-based, sequence indices 1-based.                      *)
(***************************************************************************)
EXTENDS Integers, Sequences, FiniteSets, TLC

VARIABLES
    config,           \* App.config: Config {primary_color, highlight_color, pages}
    state,            \* App.state: AppState
    page_number,      \* App.page_number: usize
    overflow_checks,  \* build profile: TRUE = overflow checks on (debug), FALSE = off (release)
    panic,            \* "None", or the panic that ended the thread
    call,             \* the last App method called, with its argument
    streak_start,     \* page_number before the current run of identical calls
    streak_len,       \* length of the current run of identical calls
    pc,               \* position in main() / run()
    terminal,         \* "cooked" before ratatui::init(), "raw" after, "restored"
    frame,            \* the last frame drawn by ui()
    drawn,            \* number of frames drawn
    events,           \* number of events read
    key,              \* the key event of the last event read, NoKey if it was no key event
    document,         \* the config file: its sections, in the order they are written
    preserve_order,   \* build of the toml crate: TRUE = its feature preserve_order is on
    read_result,      \* what read_from_config returned
    on_disk,          \* what is at the config path: whether a file exists, and its text
    init_result       \* what init_config returned the last time it ran

appVars == <<config, state, page_number, overflow_checks, panic,
             call, streak_start, streak_len>>

loopVars == <<pc, terminal, frame, drawn, events, key>>

fileVars == <<document, preserve_order, read_result, on_disk, init_result>>

vars == <<config, state, page_number, overflow_checks, panic,
          call, streak_start, streak_len, pc, terminal, frame, drawn, events, key,
          document, preserve_order, read_result, on_disk, init_result>>

(***************************************************************************)
(* Bounds of the model.                                                    *)
(***************************************************************************)
MaxPages == 3
MaxStreak == 5
MaxEvents == 4
MaxEntries == 2
MaxSections == 3
LongTokenLen == 65535

(***************************************************************************)
(* usize::MAX is 2^64 - 1, beyond TLC's integers; the model only compares  *)
(* it with indices, all far below it, so the largest TLC integer stands    *)
(* for it.                                                                 *)
(***************************************************************************)
UsizeMax == 2147483647

\* u16::MAX + 1: `as u16` keeps the low 16 bits
U16Modulus == 65536

\* usize subtraction in a build without overflow checks
WrappingSub(a, b) == IF a >= b THEN a - b ELSE UsizeMax - (b - a) + 1

AsU16(n) == n % U16Modulus

\* F(e), with e evaluated once, before F is
Let(e, F(_)) == CHOOSE y \in {F(x) : x \in {e}} : TRUE

(***************************************************************************)
(* Characters and their width in terminal cells (unicode-width).           *)
(***************************************************************************)
\* A character is written as itself where it is printable ASCII other than
\* the grave accent, as "\t", "\n", "\f", "\r", and otherwise as U+ and its
\* code point in four to six hex digits.
\* the number of a string of hex digits
RECURSIVE Hex(_)
Hex(s) ==
    IF Len(s) = 0 THEN 0
    ELSE 16 * Hex(SubSeq(s, 1, Len(s) - 1))
             + (CHOOSE d \in 0..15 :
                    SubSeq("0123456789ABCDEF", d + 1, d + 1) = SubSeq(s, Len(s), Len(s)))

\* The width of a character depends on its neighbours for some characters
\* (an emoji with a variation selector, a modifier or a joiner, a keycap, the
\* ligatures of some scripts, a line feed behind a carriage return), and the
\* tables of unicode-width are no part of the repository.  A width is stated
\* for the characters of the blocks below, which have the same width
\* whatever stands next to them; for any other character no width is stated.
NotMeasured == -1

\* the blocks of width 0, from .. to: the Combining Diacritical Marks but for
\* the long solidus overlay U+0338
ZeroWidthRanges ==
    {<<Hex("0300"), Hex("0337")>>, <<Hex("0339"), Hex("036F")>>}

\* the blocks of width 2, from .. to: the CJK Unified Ideographs and the
\* Hangul Syllables
WideRanges ==
    {<<Hex("4E00"), Hex("9FFF")>>, <<Hex("AC00"), Hex("D7A3")>>}

\* the width of a character in a string: 1 for printable ASCII, 0 or 2 in
\* the blocks above
CharWidth(c) ==
    IF Len(c) = 1 THEN (IF c \in {"\t", "\n", "\f", "\r"} THEN NotMeasured ELSE 1)
    ELSE IF c = "U+0060" THEN 1
    ELSE LET n == Hex(SubSeq(c, 3, Len(c)))
         IN  IF \E r \in ZeroWidthRanges : r[1] <= n /\ n <= r[2] THEN 0
             ELSE IF \E r \in WideRanges : r[1] <= n /\ n <= r[2] THEN 2
             ELSE NotMeasured

\* UnicodeWidthStr::width: the sum of the widths of the characters (every
\* character of one or two cells, and the second cell of the wide ones),
\* where a width is stated for each of them
StrWidth(s) ==
    IF \E i \in DOMAIN s : CharWidth(s[i]) = NotMeasured THEN NotMeasured
    ELSE Len(SelectSeq(s, LAMBDA c : CharWidth(c) >= 1))
             + Len(SelectSeq(s, LAMBDA c : CharWidth(c) = 2))

(***************************************************************************)
(* src/src/app.rs                                                          *)
(***************************************************************************)
QuitReason == {"Sigint", "CloseKeyPressed", "InitSubcommandCompleted"}

Running == [tag |-> "Running", reason |-> "None"]

Quitting(reason) == [tag |-> "Quitting", reason |-> reason]

AppState == {Running} \cup {Quitting(r) : r \in QuitReason}

DEFAULT_PRIMARY_COLOR == <<"White">>

DEFAULT_SECONDARY_COLOR == <<"Cyan">>

Indexed(c) == <<"Indexed", c>>

Entry(name, content, description) ==
    [name |-> name, content |-> content, description |-> description]

Page(name, entries) == [name |-> name, entries |-> entries]

Config(primary_color, highlight_color, pages) ==
    [primary_color |-> primary_color, highlight_color |-> highlight_color,
     pages |-> pages]

\* is_active never seeing the Quitting state
is_activeAlways == TRUE

is_active == state.tag = "Running"

current_page_number == page_number

number_of_pages == Len(config.pages)

\* Vec::get(page_number).ok_or(..)
get_current_page ==
    IF page_number < Len(config.pages)
    THEN [ok |-> TRUE, page |-> config.pages[page_number + 1]]
    ELSE [ok |-> FALSE, page |-> Page(<<>>, <<>>)]

primary_color == config.primary_color

highlight_color == config.highlight_color

\* `self.number_of_pages() - 1` panics on 0 - 1 when overflow checks are on
IncrementPanics == overflow_checks /\ number_of_pages = 0

LastPageIndex ==
    IF number_of_pages >= 1 THEN number_of_pages - 1
    ELSE WrappingSub(number_of_pages, 1)

\* increment_page without its last-page test
IncrementedPageUnclamped == page_number + 1

\* increment_page wrapping around to the first page
IncrementedPageWrapping ==
    IF page_number = LastPageIndex THEN 0 ELSE page_number + 1

IncrementedPage ==
    IF page_number = LastPageIndex THEN page_number ELSE page_number + 1

DecrementedPage ==
    IF page_number = 0 THEN page_number ELSE page_number - 1

\* the bookkeeping of runs of identical calls
Record(op, arg) ==
    /\ call' = [op |-> op, arg |-> arg]
    /\ IF call.op = op /\ call.arg = arg
       THEN /\ streak_len < MaxStreak
            /\ streak_len' = streak_len + 1
            /\ streak_start' = streak_start
       ELSE /\ streak_len' = 1
            /\ streak_start' = page_number

increment_page ==
    /\ page_number < MaxStreak    \* bounds the model where the index runs away
    /\ Record("increment_page", "None")
    /\ IF IncrementPanics
       THEN /\ panic' = "attempt to subtract with overflow"
            /\ page_number' = page_number
       ELSE /\ panic' = panic
            /\ page_number' = IncrementedPage
    /\ UNCHANGED <<config, state, overflow_checks>>

decrement_page ==
    /\ Record("decrement_page", "None")
    /\ page_number' = DecrementedPage
    /\ UNCHANGED <<config, state, overflow_checks, panic>>

quit(reason) ==
    /\ Record("quit", reason)
    /\ state' = Quitting(reason)
    /\ UNCHANGED <<config, page_number, overflow_checks, panic>>

(***************************************************************************)
(* Configurations.                                                         *)
(***************************************************************************)
Ctrl == <<"C", "t", "r", "l">>

Shift == <<"S", "h", "i", "f", "t">>

KeyC == <<"C">>

KeyQ == <<"q">>

Nihon == <<"U+65E5", "U+672C", "U+8A9E">>

LongToken == [i \in 1..LongTokenLen |-> "x"]

Copy == Entry(<<"C", "o", "p", "y">>, <<Ctrl, KeyC>>, "Copies the current selection.")

RecallClose == Entry(<<"R", "e", "c", "a", "l", "l", "C", "l", "o", "s", "e">>, <<KeyQ>>, "Closes recall")

TermCopy == Entry(<<"T", "e", "r", "m", "C", "o", "p", "y">>, <<Ctrl, Shift, KeyC>>, "Copies in a terminal")

NoKeys == Entry(<<"N", "o", "K", "e", "y", "s">>, <<>>, "Nothing to press")

EAcute == <<"e", "U+0301">>

Kanji == Entry(<<"K", "a", "n", "j", "i">>, <<Nihon, EAcute>>, "Wide and combining characters")

Long == Entry(<<"L", "o", "n", "g">>, <<LongToken, KeyC>>, "A very long token")

General == Page(<<"G", "e", "n", "e", "r", "a", "l">>, <<Copy, RecallClose>>)

EmptyPage == Page(<<"E", "m", "p", "t", "y", "P", "a", "g", "e">>, <<>>)

Terminal == Page(<<"T", "e", "r", "m", "i", "n", "a", "l">>, <<RecallClose, TermCopy, Copy>>)

Wide == Page(<<"W", "i", "d", "e">>, <<Kanji>>)

Misc == Page(<<"M", "i", "s", "c">>, <<NoKeys, Copy>>)

SamplePages == <<General, EmptyPage, Terminal, Wide, Misc>>

\* the page list of a document with n sections, none of them [recall]
PagesOf(n) == SubSeq(SamplePages, 1, n)

Configs ==
    {Config(DEFAULT_PRIMARY_COLOR, DEFAULT_SECONDARY_COLOR, PagesOf(n)) :
        n \in 0..MaxPages}

\* an entry one of whose keys is the character of the separator
Zoom == Entry(<<"Z", "o", "o", "m">>, <<Ctrl, <<"+">>>>, "Zooms in")

UiEntries == {Copy, RecallClose, TermCopy, NoKeys, Kanji, Zoom}

\* entries are keyed by name in an IndexMap: no name occurs twice in a page
Injective(f) == \A i, j \in DOMAIN f : f[i] = f[j] => i = j

UiPages ==
    {Page(<<"K", "e", "y", "s">>, es) :
        es \in {f \in UNION {[1..n -> UiEntries] : n \in 0..MaxEntries} : Injective(f)}}

\* a page whose widest shortcut does not fit in 16 bits
LongPage == Page(<<"L", "o", "n", "g">>, <<TermCopy, Long>>)

UiConfigs ==
    {Config(Indexed(15), Indexed(14), <<p>> \o rest) :
        p \in UiPages, rest \in {<<>>, <<Terminal>>}}
    \cup {Config(Indexed(15), Indexed(14), <<General, LongPage>>)}

(***************************************************************************)
(* src/src/ui.rs                                                           *)
(***************************************************************************)
NoFrame == [widget |-> "None"]

Span(content, fg, bold) == [content |-> content, fg |-> fg, bold |-> bold]

Plus == <<"+">>

\* the loop of build_shortcut over content.iter().skip(1), from component i on
RECURSIVE ShortcutTail(_, _, _, _)
ShortcutTail(content, i, pcolor, hcolor) ==
    IF i > Len(content) THEN <<>>
    ELSE <<Span(Plus, pcolor, FALSE), Span(content[i], hcolor, TRUE)>>
             \o ShortcutTail(content, i + 1, pcolor, hcolor)

\* build_shortcut without the special case of the first component
build_shortcutLeading(content, pcolor, hcolor) == ShortcutTail(content, 1, pcolor, hcolor)

\* a Line, as the sequence of its spans
build_shortcut(content, pcolor, hcolor) ==
    IF content = <<>> THEN <<>>
    ELSE <<Span(content[1], hcolor, TRUE)>> \o ShortcutTail(content, 2, pcolor, hcolor)

\* Line::width: the sum of Span::width over the spans, which is
\* UnicodeWidthStr::width of the content of the span; not stated where the
\* width of a span is not
RECURSIVE LineWidth(_)
LineWidth(line) ==
    IF line = <<>> THEN 0
    ELSE IF StrWidth(Head(line).content) = NotMeasured THEN NotMeasured
    ELSE Let(LineWidth(Tail(line)),
             LAMBDA rest : IF rest = NotMeasured THEN NotMeasured
                           ELSE StrWidth(Head(line).content) + rest)

\* build_table keeping the width of the last shortcut instead of the widest
KeepLast(a, b) == b

Max(a, b) == IF a >= b THEN a ELSE b

Row(shortcut, description) == [shortcut |-> shortcut, description |-> description]

\* the loop of build_table over the entries, from entry i on
RECURSIVE TableLoop(_, _, _, _, _, _)
TableLoop(entries, i, maximum_shortcut_length, rows, pcolor, hcolor) ==
    IF i > Len(entries)
    THEN [rows |-> rows, maximum_shortcut_length |-> maximum_shortcut_length]
    ELSE LET shortcut == build_shortcut(entries[i].content, pcolor, hcolor)
         IN  TableLoop(entries, i + 1,
                       Let(LineWidth(shortcut),
                           LAMBDA width :
                               IF NotMeasured \in {maximum_shortcut_length, width}
                               THEN NotMeasured
                               ELSE Max(maximum_shortcut_length, width)),
                       Append(rows, Row(shortcut, entries[i].description)),
                       pcolor, hcolor)

ShortcutColumn(maximum_shortcut_length) ==
    IF maximum_shortcut_length = NotMeasured THEN NotMeasured
    ELSE AsU16(maximum_shortcut_length)

build_table(entries, pcolor, hcolor) ==
    LET built == TableLoop(entries, 1, 0, <<>>, pcolor, hcolor)
    IN  [rows |-> built.rows,
         widths |-> <<[constraint |-> "Min",
                       value |-> ShortcutColumn(built.maximum_shortcut_length)],
                      [constraint |-> "Percentage", value |-> 75]>>,
         column_spacing |-> 2]

Rendered(page) ==
    [widget |-> "Table",
     title |-> [text |-> <<"[ ", page.name, " ]">>, fg |-> highlight_color, bold |-> TRUE],
     legend |-> <<[text |-> " <Left> ", fg |-> highlight_color],
                  [text |-> "Previous Page", fg |-> primary_color],
                  [text |-> " <Right>", fg |-> highlight_color],
                  [text |-> "Next Page", fg |-> primary_color],
                  [text |-> " <q> ", fg |-> highlight_color],
                  [text |-> "Close", fg |-> primary_color]>>,
     page_counter |-> [page |-> current_page_number + 1, of |-> number_of_pages,
                       fg |-> highlight_color],
     table |-> build_table(page.entries, primary_color, highlight_color)]

\* ui(frame, app): expect() panics when there is no current page
ui ==
    IF get_current_page.ok
    THEN /\ frame' = Rendered(get_current_page.page)
         /\ panic' = panic
    ELSE /\ frame' = frame
         /\ panic' = "Expected page number to reference an existing page"

(***************************************************************************)
(* src/src/config.rs                                                       *)
(*                                                                         *)
(* A TOML value is an integer, a string, an array of values or a table of  *)
(* key/value pairs.  A section is a key with its key/value pairs, a        *)
(* document the sequence of its sections, all in the order they are        *)
(* written.  A string is the sequence of its characters; a character       *)
(* outside printable ASCII is written U+ and its code point in hex,        *)
(* except for tab, line feed, form feed and carriage return.              *)
(***************************************************************************)
RECALL_TABLE_NAME == <<"r", "e", "c", "a", "l", "l">>

Integer(n) == [type |-> "integer", int |-> n, text |-> <<>>, items |-> <<>>]

String(text) == [type |-> "string", int |-> 0, text |-> text, items |-> <<>>]

Array(items) == [type |-> "array", int |-> 0, text |-> <<>>, items |-> items]

Table(pairs) == [type |-> "table", int |-> 0, text |-> <<>>, items |-> pairs]

Pair(k, v) == [key |-> k, value |-> v]

Keys(pairs) == [i \in DOMAIN pairs |-> pairs[i].key]

UpperCase ==
    <<"A", "B", "C", "D", "E", "F", "G", "H", "I", "J", "K", "L", "M",
      "N", "O", "P", "Q", "R", "S", "T", "U", "V", "W", "X", "Y", "Z">>

LowerCase ==
    <<"a", "b", "c", "d", "e", "f", "g", "h", "i", "j", "k", "l", "m",
      "n", "o", "p", "q", "r", "s", "t", "u", "v", "w", "x", "y", "z">>

\* the characters U+0020 to U+007E in the order of their bytes
Ascii ==
    <<" ", "!", "\"", "#", "$", "%", "&", "'", "(", ")",
      "*", "+", ",", "-", ".", "/", "0", "1", "2", "3",
      "4", "5", "6", "7", "8", "9", ":", ";", "<", "=",
      ">", "?", "@", "A", "B", "C", "D", "E", "F", "G",
      "H", "I", "J", "K", "L", "M", "N", "O", "P", "Q",
      "R", "S", "T", "U", "V", "W", "X", "Y", "Z", "[",
      "\\", "]", "^", "_", "U+0060", "a", "b", "c", "d", "e",
      "f", "g", "h", "i", "j", "k", "l", "m", "n", "o",
      "p", "q", "r", "s", "t", "u", "v", "w", "x", "y",
      "z", "{", "|", "}", "~">>

\* the characters U+0000 to U+001F in the order of their bytes
Controls ==
    <<"U+0000", "U+0001", "U+0002", "U+0003", "U+0004", "U+0005", "U+0006", "U+0007",
      "U+0008", "\t", "\n", "U+000B", "\f", "\r", "U+000E", "U+000F",
      "U+0010", "U+0011", "U+0012", "U+0013", "U+0014", "U+0015", "U+0016", "U+0017",
      "U+0018", "U+0019", "U+001A", "U+001B", "U+001C", "U+001D", "U+001E", "U+001F">>

\* the code point of a character; UTF-8 orders strings by their bytes as by
\* their code points
Byte(c) ==
    IF \E i \in DOMAIN Ascii : Ascii[i] = c
    THEN 31 + (CHOOSE i \in DOMAIN Ascii : Ascii[i] = c)
    ELSE IF \E i \in DOMAIN Controls : Controls[i] = c
    THEN (CHOOSE i \in DOMAIN Controls : Controls[i] = c) - 1
    ELSE Hex(SubSeq(c, 3, Len(c)))

\* the order of String: lexicographic by bytes
RECURSIVE StrLess(_, _)
StrLess(a, b) ==
    IF b = <<>> THEN FALSE
    ELSE IF a = <<>> THEN TRUE
    ELSE IF Head(a) = Head(b) THEN StrLess(Tail(a), Tail(b))
    ELSE Byte(Head(a)) < Byte(Head(b))

\* a pair put into a map that is kept in key order (BTreeMap)
RECURSIVE SortedInsert(_, _)
SortedInsert(pairs, p) ==
    IF pairs = <<>> THEN <<p>>
    ELSE IF StrLess(p.key, Head(pairs).key) THEN <<p>> \o pairs
    ELSE <<Head(pairs)>> \o SortedInsert(Tail(pairs), p)

RECURSIVE SortedByKey(_)
SortedByKey(pairs) ==
    IF pairs = <<>> THEN <<>>
    ELSE SortedInsert(SortedByKey(SubSeq(pairs, 1, Len(pairs) - 1)), pairs[Len(pairs)])

\* The manifest of the crate selects the features of toml.  The parsed
\* document is a generic ordered mapping, in the order the keys were
\* encountered: toml::Table keeps insertion order, which is the feature
\* preserve_order.
TomlPreserveOrder == TRUE

\* toml::map::Map: an IndexMap with the feature preserve_order, a BTreeMap without
MapOf(pairs) == IF preserve_order THEN pairs ELSE SortedByKey(pairs)

\* TOML defines no table and no key twice
Duplicates(pairs) == \E i, j \in DOMAIN pairs : i # j /\ pairs[i].key = pairs[j].key

\* what a serde::de::Error says: its kind, what was found, what was expected
Cause(kind, unexpected, expected) ==
    [kind |-> kind, unexpected |-> unexpected, expected |-> expected]

Nothing == [type |-> "", int |-> 0, text |-> <<>>]

NoCause == Cause("", Nothing, "")

Ok(v) == [tag |-> "ok", value |-> v, context |-> "", name |-> <<>>,
          cause |-> NoCause, keys |-> <<>>]

\* an anyhow::Error: the context with the name formatted into it, and below it
\* the error of the toml crate, which carries the keys it was raised under
ErrCaused(context, name, cause, keys) ==
    [tag |-> "err", value |-> <<>>, context |-> context, name |-> name,
     cause |-> cause, keys |-> keys]

Err(context, name) == ErrCaused(context, name, NoCause, <<>>)

\* serde::de::Unexpected of a value: integer `5`, string "a", sequence, map
Unexpected(v) ==
    IF v.type = "array" THEN [type |-> "sequence", int |-> 0, text |-> <<>>]
    ELSE IF v.type = "table" THEN [type |-> "map", int |-> 0, text |-> <<>>]
    ELSE [type |-> v.type, int |-> v.int, text |-> v.text]

InvalidType(v, expected) == Cause("invalid type", Unexpected(v), expected)

InvalidLength(n, expected) ==
    Cause("invalid length", [type |-> "length", int |-> n, text |-> <<>>], expected)

MissingField(field) ==
    Cause("missing field", [type |-> "field", int |-> 0, text |-> field], "")

\* a value of the document as toml holds it: every table in it, at any
\* depth, is a toml::Table
RECURSIVE TableOf(_)
TableOf(v) ==
    IF v.type = "table"
    THEN Table(MapOf([i \in DOMAIN v.items |->
                         Pair(v.items[i].key, TableOf(v.items[i].value))]))
    ELSE IF v.type = "array" THEN Array([i \in DOMAIN v.items |-> TableOf(v.items[i])])
    ELSE v

\* toml::from_str::<Table>
parse_toml(content) ==
    IF Duplicates(content) \/ \E i \in DOMAIN content : Duplicates(content[i].value)
    THEN ErrCaused("Failed to read toml", <<>>, Cause("TOML parse error", Nothing, ""), <<>>)
    ELSE Ok(MapOf([i \in DOMAIN content |->
                      Pair(content[i].key,
                           MapOf([j \in DOMAIN content[i].value |->
                                     Pair(content[i].value[j].key,
                                          TableOf(content[i].value[j].value))]))]))

Field(table, k) ==
    IF \E i \in DOMAIN table : table[i].key = k
    THEN [present |-> TRUE, value |-> table[CHOOSE i \in DOMAIN table : table[i].key = k].value]
    ELSE [present |-> FALSE, value |-> Integer(0)]

\* u8 from a value
U8(v) ==
    IF v.type # "integer" THEN ErrCaused("", <<>>, InvalidType(v, "u8"), <<>>)
    ELSE IF v.int \notin 0..255
    THEN ErrCaused("", <<>>, Cause("invalid value", Unexpected(v), "u8"), <<>>)
    ELSE Ok(v.int)

PRIMARY_COLOR == <<"p", "r", "i", "m", "a", "r", "y", "_", "c", "o", "l", "o", "r">>

HIGHLIGHT_COLOR == <<"h", "i", "g", "h", "l", "i", "g", "h", "t", "_", "c", "o", "l", "o", "r">>

\* Value::try_into::<RecallToml>: the fields are visited in the order of the
\* table, the first that is no u8 fails under its key, other keys are ignored
RecallToml(table) ==
    LET p == Field(table, PRIMARY_COLOR)
        h == Field(table, HIGHLIGHT_COLOR)
        bad == {i \in DOMAIN table :
                   /\ table[i].key \in {PRIMARY_COLOR, HIGHLIGHT_COLOR}
                   /\ U8(table[i].value).tag = "err"}
    IN  IF bad = {}
        THEN Ok([primary_color |-> [present |-> p.present, value |-> p.value.int],
                 highlight_color |-> [present |-> h.present, value |-> h.value.int]])
        ELSE LET i == CHOOSE j \in bad : \A k \in bad : j <= k
             IN  ErrCaused("Failed to parse recall settings", <<>>,
                           U8(table[i].value).cause, <<table[i].key>>)

CONTENT == <<"c", "o", "n", "t", "e", "n", "t">>

DESCRIPTION == <<"d", "e", "s", "c", "r", "i", "p", "t", "i", "o", "n">>

\* String from a value
StringOf(v) ==
    IF v.type = "string" THEN Ok(v.text)
    ELSE ErrCaused("", <<>>, InvalidType(v, "a string"), <<>>)

\* Vec<String> from a value: the first item that is no string fails
VecOfString(v) ==
    IF v.type # "array" THEN ErrCaused("", <<>>, InvalidType(v, "a sequence"), <<>>)
    ELSE LET bad == {i \in DOMAIN v.items : v.items[i].type # "string"}
         IN  IF bad = {} THEN Ok([i \in DOMAIN v.items |-> v.items[i].text])
             ELSE StringOf(v.items[CHOOSE j \in bad : \A k \in bad : j <= k])

\* the field of EntryToml a key of a table is for, with its value
FieldOf(pair) ==
    IF pair.key = CONTENT THEN VecOfString(pair.value)
    ELSE IF pair.key = DESCRIPTION THEN StringOf(pair.value)
    ELSE Ok(<<>>)

\* EntryToml with both fields defaulted when missing
missing_fieldDefaulted(fields) == <<>>

\* the first field of EntryToml the table has no key for: both are required
missing_field(fields) ==
    IF ~Field(fields, CONTENT).present THEN CONTENT
    ELSE IF ~Field(fields, DESCRIPTION).present THEN DESCRIPTION
    ELSE <<>>

\* EntryToml from a table: the keys are visited in the order of the table,
\* the first whose value is not of the type of its field fails under its
\* key, other keys are ignored; then a field without key is missing
EntryOfTable(fields) ==
    LET bad == {i \in DOMAIN fields : FieldOf(fields[i]).tag = "err"}
        c == Field(fields, CONTENT)
        d == Field(fields, DESCRIPTION)
    IN  IF bad # {}
        THEN LET i == CHOOSE j \in bad : \A k \in bad : j <= k
             IN  ErrCaused("", <<>>, FieldOf(fields[i]).cause, <<fields[i].key>>)
        ELSE IF missing_field(fields) # <<>>
        THEN ErrCaused("", <<>>, MissingField(missing_field(fields)), <<>>)
        ELSE Ok([content |-> IF c.present THEN VecOfString(c.value).value ELSE <<>>,
                 description |-> IF d.present THEN StringOf(d.value).value ELSE <<>>])

\* EntryToml from an array: content is its first item, description its second
EntryOfArray(items) ==
    IF Len(items) = 0
    THEN ErrCaused("", <<>>, InvalidLength(0, "struct EntryToml with 2 elements"), <<>>)
    ELSE IF VecOfString(items[1]).tag = "err" THEN VecOfString(items[1])
    ELSE IF Len(items) = 1
    THEN ErrCaused("", <<>>, InvalidLength(1, "struct EntryToml with 2 elements"), <<>>)
    ELSE IF StringOf(items[2]).tag = "err" THEN StringOf(items[2])
    ELSE IF Len(items) > 2
    THEN ErrCaused("", <<>>, InvalidLength(Len(items), "fewer elements in array"), <<>>)
    ELSE Ok([content |-> VecOfString(items[1]).value,
             description |-> StringOf(items[2]).value])

\* EntryToml from a value
EntryToml(v) ==
    IF v.type = "table" THEN EntryOfTable(v.items)
    ELSE IF v.type = "array" THEN EntryOfArray(v.items)
    ELSE ErrCaused("", <<>>, InvalidType(v, "struct EntryToml"), <<>>)

\* Value::try_into::<PageToml>: the entries are visited in the order of the
\* table, the first that is no EntryToml fails under its key
PageToml(name, table) ==
    Let([i \in DOMAIN table |-> EntryToml(table[i].value)] \o <<>>, LAMBDA entries :
        LET bad == {i \in DOMAIN table : entries[i].tag = "err"}
        IN  IF bad = {}
            THEN Ok([i \in DOMAIN table |-> Pair(table[i].key, entries[i].value)])
            ELSE LET i == CHOOSE j \in bad : \A k \in bad : j <= k
                 IN  ErrCaused("Failed to parse page", name, entries[i].cause,
                               <<table[i].key>> \o entries[i].keys))

NoRecall == [present |-> FALSE, primary_color |-> [present |-> FALSE, value |-> 0],
             highlight_color |-> [present |-> FALSE, value |-> 0]]

\* the loop of build_config_toml over the table, from pair i on
RECURSIVE BuildLoop(_, _, _, _)
BuildLoop(toml_table, i, recall, pages) ==
    IF i > Len(toml_table) THEN Ok([recall |-> recall, pages |-> pages])
    ELSE LET name == toml_table[i].key
             value == toml_table[i].value
         IN  IF name = RECALL_TABLE_NAME
             THEN Let(RecallToml(value), LAMBDA r :
                      IF r.tag = "err" THEN r
                      ELSE BuildLoop(toml_table, i + 1,
                                     [present |-> TRUE,
                                      primary_color |-> r.value.primary_color,
                                      highlight_color |-> r.value.highlight_color],
                                     pages))
             ELSE Let(PageToml(name, value), LAMBDA page_toml :
                      IF page_toml.tag = "err" THEN page_toml
                      ELSE Let(Append(pages, Pair(name, page_toml.value)), LAMBDA more :
                                   BuildLoop(toml_table, i + 1, recall, more)))

build_config_toml(toml_table) == BuildLoop(toml_table, 1, NoRecall, <<>>)

build_entry(name, entry) == Entry(name, entry.content, entry.description)

\* build_page over a page whose entries are kept in key order
build_pageSorted(name, page) ==
    LET sorted == SortedByKey(page)
    IN  Page(name, [i \in DOMAIN sorted |-> build_entry(sorted[i].key, sorted[i].value)])

build_page(name, page) ==
    Page(name, [i \in DOMAIN page |-> build_entry(page[i].key, page[i].value)])

\* ColorOf that takes both colors from a [recall] section that is present
ColorOfSection(recall, field, default) ==
    IF recall.present THEN Indexed(field.value) ELSE default

ColorOf(recall, field, default) ==
    IF recall.present
    THEN IF field.present THEN Indexed(field.value) ELSE default
    ELSE default

read_from_config(file) ==
    Let(parse_toml(file), LAMBDA toml_table :
        IF toml_table.tag = "err" THEN toml_table
        ELSE Let(build_config_toml(toml_table.value), LAMBDA config_toml :
                 IF config_toml.tag = "err" THEN config_toml
                 ELSE LET built == config_toml.value
                      IN  Ok(Config(
                              ColorOf(built.recall, built.recall.primary_color,
                                      DEFAULT_PRIMARY_COLOR),
                              ColorOf(built.recall, built.recall.highlight_color,
                                      DEFAULT_SECONDARY_COLOR),
                              [i \in DOMAIN built.pages |->
                                  build_page(built.pages[i].key, built.pages[i].value)]))))

(***************************************************************************)
(* The config file as text: a sequence of characters.                       *)
(***************************************************************************)
\* the characters of a string of the program
Chars(text) ==
    CASE text = "# Global settings for recall\n" ->
           <<"#", " ", "G", "l", "o", "b", "a", "l", " ", "s", "e", "t", "t", "i", "n", "g",
             "s", " ", "f", "o", "r", " ", "r", "e", "c", "a", "l", "l", "\n">>
      [] text = "[recall]\n" ->
           <<"[", "r", "e", "c", "a", "l", "l", "]", "\n">>
      [] text = "# Colors are u8-encoded numbers as per the ANSI Color Table\n" ->
           <<"#", " ", "C", "o", "l", "o", "r", "s", " ", "a", "r", "e", " ", "u", "8", "-",
             "e", "n", "c", "o", "d", "e", "d", " ", "n", "u", "m", "b", "e", "r", "s", " ",
             "a", "s", " ", "p", "e", "r", " ", "t", "h", "e", " ", "A", "N", "S", "I", " ",
             "C", "o", "l", "o", "r", " ", "T", "a", "b", "l", "e", "\n">>
      [] text = "primary_color = " ->
           <<"p", "r", "i", "m", "a", "r", "y", "_", "c", "o", "l", "o", "r", " ", "=", " ">>
      [] text = "highlight_color = " ->
           <<"h", "i", "g", "h", "l", "i", "g", "h", "t", "_", "c", "o", "l", "o", "r", " ",
             "=", " ">>
      [] text = "\n" ->
           <<"\n">>
      [] text = "# Each subtable defines a new page\n" ->
           <<"#", " ", "E", "a", "c", "h", " ", "s", "u", "b", "t", "a", "b", "l", "e", " ",
             "d", "e", "f", "i", "n", "e", "s", " ", "a", " ", "n", "e", "w", " ", "p", "a",
             "g", "e", "\n">>
      [] text = "# The name of the page is the name of the subtable\n" ->
           <<"#", " ", "T", "h", "e", " ", "n", "a", "m", "e", " ", "o", "f", " ", "t", "h",
             "e", " ", "p", "a", "g", "e", " ", "i", "s", " ", "t", "h", "e", " ", "n", "a",
             "m", "e", " ", "o", "f", " ", "t", "h", "e", " ", "s", "u", "b", "t", "a", "b",
             "l", "e", "\n">>
      [] text = "[" ->
           <<"[">>
      [] text = "]\n" ->
           <<"]", "\n">>
      [] text = "# \"Content\" takes an array of strings used as keys needed for a shortcut\n" ->
           <<"#", " ", "\"", "C", "o", "n", "t", "e", "n", "t", "\"", " ", "t", "a", "k", "e",
             "s", " ", "a", "n", " ", "a", "r", "r", "a", "y", " ", "o", "f", " ", "s", "t",
             "r", "i", "n", "g", "s", " ", "u", "s", "e", "d", " ", "a", "s", " ", "k", "e",
             "y", "s", " ", "n", "e", "e", "d", "e", "d", " ", "f", "o", "r", " ", "a", " ",
             "s", "h", "o", "r", "t", "c", "u", "t", "\n">>
      [] text = "# \"Description\" takes a string used as a description for this entry\n" ->
           <<"#", " ", "\"", "D", "e", "s", "c", "r", "i", "p", "t", "i", "o", "n", "\"", " ",
             "t", "a", "k", "e", "s", " ", "a", " ", "s", "t", "r", "i", "n", "g", " ", "u",
             "s", "e", "d", " ", "a", "s", " ", "a", " ", "d", "e", "s", "c", "r", "i", "p",
             "t", "i", "o", "n", " ", "f", "o", "r", " ", "t", "h", "i", "s", " ", "e", "n",
             "t", "r", "y", "\n">>
      [] text = " = {content = [" ->
           <<" ", "=", " ", "{", "c", "o", "n", "t", "e", "n", "t", " ", "=", " ", "[">>
      [] text = "], description = \"" ->
           <<"]", ",", " ", "d", "e", "s", "c", "r", "i", "p", "t", "i", "o", "n", " ", "=",
             " ", "\"">>
      [] text = "\"}\n" ->
           <<"\"", "}", "\n">>
      [] text = "# Empty tables are also allowed (but useless)\n" ->
           <<"#", " ", "E", "m", "p", "t", "y", " ", "t", "a", "b", "l", "e", "s", " ", "a",
             "r", "e", " ", "a", "l", "s", "o", " ", "a", "l", "l", "o", "w", "e", "d", " ",
             "(", "b", "u", "t", " ", "u", "s", "e", "l", "e", "s", "s", ")", "\n">>
      [] text = "Copies the current selection." ->
           <<"C", "o", "p", "i", "e", "s", " ", "t", "h", "e", " ", "c", "u", "r", "r", "e",
             "n", "t", " ", "s", "e", "l", "e", "c", "t", "i", "o", "n", ".">>
      [] text = "Closes recall" ->
           <<"C", "l", "o", "s", "e", "s", " ", "r", "e", "c", "a", "l", "l">>
      [] text = "Copies in a terminal" ->
           <<"C", "o", "p", "i", "e", "s", " ", "i", "n", " ", "a", " ", "t", "e", "r", "m",
             "i", "n", "a", "l">>
      [] text = "Nothing to press" ->
           <<"N", "o", "t", "h", "i", "n", "g", " ", "t", "o", " ", "p", "r", "e", "s", "s">>
      [] text = "Wide and combining characters" ->
           <<"W", "i", "d", "e", " ", "a", "n", "d", " ", "c", "o", "m", "b", "i", "n", "i",
             "n", "g", " ", "c", "h", "a", "r", "a", "c", "t", "e", "r", "s">>
      [] text = "Zooms in" ->
           <<"Z", "o", "o", "m", "s", " ", "i", "n">>
      [] text = "A very long token" ->
           <<"A", " ", "v", "e", "r", "y", " ", "l", "o", "n", "g", " ", "t", "o", "k", "e",
             "n">>
      [] text = "Does nothing" ->
           <<"D", "o", "e", "s", " ", "n", "o", "t", "h", "i", "n", "g">>
      [] text = "Says \"hi\"" ->
           <<"S", "a", "y", "s", " ", "\"", "h", "i", "\"">>
      [] text = "Opens C:\\new" ->
           <<"O", "p", "e", "n", "s", " ", "C", ":", "\\", "n", "e", "w">>
      [] text = "" -> <<>>

Digits == <<"0", "1", "2", "3", "4", "5", "6", "7", "8", "9">>

\* format!("{}", n) of a number
RECURSIVE Decimal(_)
Decimal(n) ==
    IF n < 10 THEN <<Digits[n + 1]>>
    ELSE Decimal(n \div 10) \o <<Digits[(n % 10) + 1]>>

\* enum Hint, for the four hints of serialize_init_config
NotYetOutput ==
    [subtable |-> FALSE, content_array |-> FALSE, description |-> FALSE,
     empty_table |-> FALSE]

\* the keys in quotes, with nothing between them
RECURSIVE JoinKeysUnseparated(_, _)
JoinKeysUnseparated(content, i) ==
    IF i > Len(content) THEN <<>>
    ELSE <<"\"">> \o content[i] \o <<"\"">> \o JoinKeysUnseparated(content, i + 1)

\* content.iter().map(|key| format!("\"{}\"", key)).collect().join(",")
RECURSIVE JoinKeys(_, _)
JoinKeys(content, i) ==
    IF i > Len(content) THEN <<>>
    ELSE (IF i > 1 THEN <<",">> ELSE <<>>)
             \o <<"\"">> \o content[i] \o <<"\"">> \o JoinKeys(content, i + 1)

\* the loop of serialize_init_config over the entries of a page, from entry i on
RECURSIVE EntriesLoop(_, _, _, _)
EntriesLoop(entries, i, hints, str) ==
    IF i > Len(entries) THEN [str |-> str, hints |-> hints]
    ELSE LET entry == entries[i]
             content_hint == entry.content # <<>> /\ ~hints.content_array
             description_hint ==
                 Chars(entry.description) # <<>> /\ ~hints.description
             s1 == IF content_hint
                   THEN str \o Chars("# \"Content\" takes an array of strings used as keys needed for a shortcut\n")
                   ELSE str
             s2 == IF description_hint
                   THEN s1 \o Chars("# \"Description\" takes a string used as a description for this entry\n")
                   ELSE s1
             s3 == s2 \o entry.name \o Chars(" = {content = [")
                      \o JoinKeys(entry.content, 1)
                      \o Chars("], description = \"")
                      \o Chars(entry.description) \o Chars("\"}\n")
         IN  EntriesLoop(entries, i + 1,
                         [hints EXCEPT !.content_array = @ \/ content_hint,
                                       !.description = @ \/ description_hint],
                         s3)

\* the loop of serialize_init_config over the pages, from page i on
RECURSIVE PagesLoop(_, _, _, _)
PagesLoop(pages, i, hints, str) ==
    IF i > Len(pages) THEN str
    ELSE LET page == pages[i]
             s1 == IF ~hints.subtable
                   THEN str \o Chars("# Each subtable defines a new page\n")
                            \o Chars("# The name of the page is the name of the subtable\n")
                   ELSE str
             s2 == s1 \o Chars("[") \o page.name \o Chars("]\n")
             written == EntriesLoop(page.entries, 1, [hints EXCEPT !.subtable = TRUE], s2)
             empty_hint == page.entries = <<>> /\ ~written.hints.empty_table
             s3 == IF empty_hint
                   THEN written.str \o Chars("# Empty tables are also allowed (but useless)\n")
                   ELSE written.str
         IN  PagesLoop(pages, i + 1,
                       [written.hints EXCEPT !.empty_table = @ \/ empty_hint],
                       s3 \o Chars("\n"))

\* the colors of the config are not written: 15 and 14 stand in for them
serialize_init_config(c) ==
    PagesLoop(c.pages, 1, NotYetOutput,
              Chars("# Global settings for recall\n")
                  \o Chars("[recall]\n")
                  \o Chars("# Colors are u8-encoded numbers as per the ANSI Color Table\n")
                  \o Chars("primary_color = ") \o Decimal(15) \o Chars("\n")
                  \o Chars("highlight_color = ") \o Decimal(14) \o Chars("\n")
                  \o Chars("\n"))

\* the exemplary config of init_config
ExampleConfig ==
    Config(DEFAULT_PRIMARY_COLOR, DEFAULT_SECONDARY_COLOR, <<General, EmptyPage>>)

\* what is at the config path
NoFile == [exists |-> FALSE, text |-> <<>>]

FileOf(text) == [exists |-> TRUE, text |-> text]

(***************************************************************************)
(* toml::from_str on the text of a file, for the TOML that                 *)
(* serialize_init_config writes: comments, blank lines, [table] headers,   *)
(* and key = value lines under a header, with bare or quoted keys and, as  *)
(* values, decimal integers, basic strings, arrays of basic strings and    *)
(* inline tables of these, each on one line; line ends are LF or CRLF.     *)
(* Other TOML is left undecided: dotted keys, arrays of tables, keys above *)
(* the first header, literal and multi-line strings, other numbers,        *)
(* booleans, dates, unicode escapes, arrays of other items or over several *)
(* lines, and what differs between the versions of TOML (an inline table   *)
(* over several lines or with a trailing comma, the escapes \e and \x).    *)
(***************************************************************************)
BareKeyChars ==
    {UpperCase[i] : i \in DOMAIN UpperCase} \cup {LowerCase[i] : i \in DOMAIN LowerCase}
        \cup {Digits[i] : i \in DOMAIN Digits} \cup {"_", "-"}

\* the control characters TOML allows neither in a comment nor in a basic
\* string: U+0000 to U+001F without tab (a line holds no line feed), U+007F
ControlChars == ({Controls[i] : i \in DOMAIN Controls} \ {"\t", "\n"}) \cup {"U+007F"}

\* the character at a position of a line, "" behind its end
At(l, i) == IF i \in 1..Len(l) THEN l[i] ELSE ""

\* the first position from i on whose character is not in the set
RECURSIVE ScanWhile(_, _, _)
ScanWhile(l, i, set) ==
    IF i > Len(l) \/ l[i] \notin set THEN i ELSE ScanWhile(l, i + 1, set)

SkipWs(l, i) == ScanWhile(l, i, {" ", "\t"})

Parsed(val, pos) == [ok |-> TRUE, why |-> "", val |-> val, pos |-> pos]

\* a TOML error
Invalid == [ok |-> FALSE, why |-> "invalid", val |-> <<>>, pos |-> 0]

\* TOML outside of what is decided here
Undecided == [ok |-> FALSE, why |-> "undecided", val |-> <<>>, pos |-> 0]

\* the rest of a line is blank, or a comment without control characters
EndOfLine(l, i) ==
    LET j == SkipWs(l, i)
    IN  \/ At(l, j) = ""
        \/ At(l, j) = "#" /\ \A k \in j..Len(l) : l[k] \notin ControlChars

\* the body of a basic string from position j on, up to its closing quote
RECURSIVE StringBody(_, _, _)
StringBody(l, j, acc) ==
    LET c == At(l, j)
        e == At(l, j + 1)
    IN  IF c = "" \/ c \in ControlChars THEN Invalid
        ELSE IF c = "\"" THEN Parsed(acc, j + 1)
        ELSE IF c # "\\" THEN StringBody(l, j + 1, Append(acc, c))
        ELSE IF e \in {"\"", "\\"} THEN StringBody(l, j + 2, Append(acc, e))
        ELSE IF e = "n" THEN StringBody(l, j + 2, Append(acc, "\n"))
        ELSE IF e = "t" THEN StringBody(l, j + 2, Append(acc, "\t"))
        ELSE IF e = "r" THEN StringBody(l, j + 2, Append(acc, "\r"))
        ELSE IF e = "f" THEN StringBody(l, j + 2, Append(acc, "\f"))
        ELSE IF e \in {"b", "e", "x", "u", "U"} THEN Undecided
        ELSE Invalid

\* a basic string whose opening quote is at position i
BasicString(l, i) ==
    IF At(l, i + 1) = "\"" /\ At(l, i + 2) = "\"" THEN Undecided
    ELSE StringBody(l, i + 1, <<>>)

\* a key at position i
ParseKey(l, i) ==
    IF At(l, i) \in BareKeyChars
    THEN Let(ScanWhile(l, i, BareKeyChars), LAMBDA j : Parsed(SubSeq(l, i, j - 1), j))
    ELSE IF At(l, i) = "\"" THEN BasicString(l, i)
    ELSE IF At(l, i) = "'" THEN Undecided
    ELSE Invalid

\* the number of a sequence of decimal digits
RECURSIVE Number(_)
Number(digits) ==
    IF digits = <<>> THEN 0
    ELSE 10 * Number(SubSeq(digits, 1, Len(digits) - 1))
             + (CHOOSE d \in 0..9 : Digits[d + 1] = digits[Len(digits)])

\* the decimal integer of the digits that end before position j
IntegerOf(l, i, digits, j) ==
    IF digits = <<>> THEN Undecided
    ELSE IF At(l, j) \notin {"", " ", "\t", "#", ",", "}", "]"} THEN Undecided
    ELSE IF Len(digits) > 1 /\ digits[1] = "0" THEN Invalid
    ELSE IF Len(digits) > 9 THEN Undecided
    ELSE Parsed(Integer(IF At(l, i) = "-" THEN 0 - Number(digits) ELSE Number(digits)), j)

\* a decimal integer at position i
ParseInteger(l, i) ==
    Let(IF At(l, i) \in {"+", "-"} THEN i + 1 ELSE i, LAMBDA first :
    Let(ScanWhile(l, first, {Digits[d] : d \in DOMAIN Digits}), LAMBDA j :
    Let(SubSeq(l, first, j - 1), LAMBDA digits : IntegerOf(l, i, digits, j))))

\* the items of an array of basic strings from position i on, up to its "]";
\* an array that goes on behind a comment or on the next line is not decided
RECURSIVE ArrayItems(_, _, _)
ArrayItems(l, i, acc) ==
    Let(SkipWs(l, i), LAMBDA j :
        IF At(l, j) = "]" THEN Parsed(Array(acc), j + 1)
        ELSE IF At(l, j) # "\"" THEN Undecided
        ELSE Let(BasicString(l, j), LAMBDA item :
                 IF ~item.ok THEN item
                 ELSE Let(SkipWs(l, item.pos), LAMBDA k :
                          IF At(l, k) = ","
                          THEN Let(Append(acc, String(item.val)), LAMBDA items :
                                       ArrayItems(l, k + 1, items))
                          ELSE IF At(l, k) = "]"
                          THEN Parsed(Array(Append(acc, String(item.val))), k + 1)
                          ELSE IF At(l, k) \in {"", "#"} THEN Undecided
                          ELSE Invalid)))

\* a value that is no inline table, at position i
ParseScalar(l, i) ==
    IF At(l, i) = "\""
    THEN Let(BasicString(l, i), LAMBDA s : IF s.ok THEN Parsed(String(s.val), s.pos) ELSE s)
    ELSE IF At(l, i) = "[" THEN ArrayItems(l, i + 1, <<>>)
    ELSE IF At(l, i) \in {Digits[d] : d \in DOMAIN Digits} \cup {"+", "-"}
    THEN ParseInteger(l, i)
    ELSE IF At(l, i) = "" THEN Invalid
    ELSE Undecided

\* the pairs of an inline table from position i on, up to its "}"; an inline
\* table that goes on behind a comment or on the next line, wherever the line
\* ends in it (before a key, between a key and its "=", between "=" and the
\* value, behind a value), is not decided
RECURSIVE InlinePairs(_, _, _)
InlinePairs(l, i, pairs) ==
    IF At(l, SkipWs(l, i)) \in {"", "#"} THEN Undecided
    ELSE
    Let(ParseKey(l, SkipWs(l, i)), LAMBDA k :
        IF ~k.ok THEN k
        ELSE Let(SkipWs(l, k.pos), LAMBDA eq :
        IF At(l, eq) \in {".", "", "#"} THEN Undecided
        ELSE IF At(l, eq) # "=" THEN Invalid
        ELSE Let(SkipWs(l, eq + 1), LAMBDA at :
        IF At(l, at) \in {"{", "", "#"} THEN Undecided
        ELSE Let(ParseScalar(l, at), LAMBDA v :
        IF ~v.ok THEN v
        ELSE Let(SkipWs(l, v.pos), LAMBDA j :
             Let(Append(pairs, Pair(k.val, v.val)), LAMBDA more :
        IF At(l, j) = ","
        THEN IF At(l, SkipWs(l, j + 1)) = "}" THEN Undecided
             ELSE InlinePairs(l, j + 1, more)
        ELSE IF At(l, j) \in {"", "#"} THEN Undecided
        ELSE IF At(l, j) # "}" THEN Invalid
        ELSE IF Duplicates(more) THEN Invalid
        ELSE Parsed(Table(more), j + 1)))))))

\* a value at position i
ParseValue(l, i) ==
    IF At(l, i) # "{" THEN ParseScalar(l, i)
    ELSE Let(SkipWs(l, i + 1), LAMBDA j :
             IF At(l, j) = "}" THEN Parsed(Table(<<>>), j + 1)
             ELSE InlinePairs(l, j, <<>>))

\* a [table] header whose "[" is at position i
ParseHeader(l, i) ==
    IF At(l, i + 1) = "[" THEN Undecided
    ELSE Let(ParseKey(l, SkipWs(l, i + 1)), LAMBDA k :
             IF ~k.ok THEN k
             ELSE Let(SkipWs(l, k.pos), LAMBDA j :
                      IF At(l, j) = "." THEN Undecided
                      ELSE IF At(l, j) # "]" \/ ~EndOfLine(l, j + 1) THEN Invalid
                      ELSE [Parsed(k.val, j + 1) EXCEPT !.why = "header"]))

\* key = value from position i on
ParsePair(l, i) ==
    Let(ParseKey(l, i), LAMBDA k :
        IF ~k.ok THEN k
        ELSE Let(SkipWs(l, k.pos), LAMBDA eq :
        IF At(l, eq) = "." THEN Undecided
        ELSE IF At(l, eq) # "=" THEN Invalid
        ELSE Let(ParseValue(l, SkipWs(l, eq + 1)), LAMBDA v :
        IF ~v.ok THEN v
        ELSE IF ~EndOfLine(l, v.pos) THEN Invalid
        ELSE [Parsed(Pair(k.val, v.val), v.pos) EXCEPT !.why = "pair"])))

\* a line: blank or a comment, a [table] header, or key = value
ParseLine(l) ==
    Let(SkipWs(l, 1), LAMBDA i :
        IF At(l, i) \in {"", "#"}
        THEN IF EndOfLine(l, i) THEN [Parsed(<<>>, i) EXCEPT !.why = "blank"] ELSE Invalid
        ELSE IF At(l, i) = "[" THEN ParseHeader(l, i)
        ELSE ParsePair(l, i))

\* the positions of the line feeds of a text, and of its end behind a last
\* line without line feed
LineEnds(text) ==
    SelectSeq([j \in 1..Len(text) |-> j], LAMBDA j : text[j] = "\n")
        \o (IF text # <<>> /\ text[Len(text)] # "\n" THEN <<Len(text) + 1>> ELSE <<>>)

\* the lines of a text, without their line ends: LF, or CRLF
Lines(text) ==
    Let(LineEnds(text), LAMBDA ends :
        [k \in DOMAIN ends |->
            LET from == IF k = 1 THEN 1 ELSE ends[k - 1] + 1
                to == ends[k] - 1
            IN  IF ends[k] <= Len(text) /\ to >= from /\ text[to] = "\r"
                THEN SubSeq(text, from, to - 1)
                ELSE SubSeq(text, from, to)] \o <<>>)

\* the key = value lines behind the header in line h, up to the next header
PairsBehind(parsed, h) ==
    Let(SelectSeq([k \in DOMAIN parsed |-> k],
                  LAMBDA k : /\ k > h
                             /\ parsed[k].why = "pair"
                             /\ \A n \in (h + 1)..k : parsed[n].why # "header"),
        LAMBDA ks : [n \in DOMAIN ks |-> parsed[ks[n]].val] \o <<>>)

\* the sections of the lines parsed: the first line that fails fails the
\* document, otherwise every header opens a section that takes the pairs
\* behind it
SectionsOf(parsed) ==
    Let({k \in DOMAIN parsed : ~parsed[k].ok}, LAMBDA bad :
        IF bad # {} THEN parsed[CHOOSE k \in bad : \A n \in bad : k <= n]
        ELSE Let(SelectSeq([k \in DOMAIN parsed |-> k],
                           LAMBDA k : parsed[k].why = "header"),
                 LAMBDA headers :
                     IF \E k \in DOMAIN parsed :
                            /\ parsed[k].why = "pair"
                            /\ \A m \in DOMAIN headers : headers[m] > k
                     THEN Undecided
                     ELSE Parsed([m \in DOMAIN headers |->
                                     Pair(parsed[headers[m]].val,
                                          PairsBehind(parsed, headers[m]))] \o <<>>,
                                 0)))

\* the lines of the text, each parsed
ParseLines(text) ==
    Let(Lines(text), LAMBDA lines : [k \in DOMAIN lines |-> ParseLine(lines[k])] \o <<>>)

\* the document of a text: its sections in the order they are written; a
\* byte order mark at the start of the text is skipped
from_str(text) ==
    Let(ParseLines(IF text # <<>> /\ text[1] = "U+FEFF" THEN Tail(text) ELSE text),
        LAMBDA parsed : SectionsOf(parsed))

\* Reads the config file from disk and returns its contents as a string.
read_file(f) ==
    IF f.exists THEN Ok(f.text) ELSE Err("Failed to read config from", <<>>)

\* no result: the text of the file is TOML that is not decided here
Abstained == [tag |-> "undecided", value |-> <<>>, context |-> "", name |-> <<>>,
              cause |-> NoCause, keys |-> <<>>]

\* read_from_config on what is at the path
read_from_path(f) ==
    Let(read_file(f), LAMBDA content :
        IF content.tag = "err" THEN content
        ELSE Let(from_str(content.value), LAMBDA parsed :
                 IF parsed.ok THEN read_from_config(parsed.val)
                 ELSE IF parsed.why = "undecided" THEN Abstained
                 ELSE ErrCaused("Failed to read toml", <<>>,
                                Cause("TOML parse error", Nothing, ""), <<>>)))

\* init_config: the result and what is at the path afterwards; try_exists
\* may fail, as where a directory of the path is a file or may not be
\* searched.  fs::write creates the file and then writes the text to it: it
\* may fail before it has created the file, as where the directory of the path
\* does not exist, and it may fail after it has written only the first
\* characters of the text or none, as where the file may not grow or the disk
\* is full, and then leaves the file with what it has written.
init_config(f, checked, created, written) ==
    LET config_toml_str == serialize_init_config(ExampleConfig)
    IN  IF ~checked
        THEN [result |-> Err("Can't check existence of file", <<>>), file |-> f]
        ELSE IF f.exists THEN [result |-> Err("Path already exists!", <<>>), file |-> f]
        ELSE IF ~created THEN [result |-> Err("fs::write", <<>>), file |-> f]
        ELSE IF written < Len(config_toml_str)
        THEN [result |-> Err("fs::write", <<>>),
              file |-> FileOf(SubSeq(config_toml_str, 1, written))]
        ELSE [result |-> Ok("Created example config in"), file |-> FileOf(config_toml_str)]

(***************************************************************************)
(* Config documents.                                                       *)
(***************************************************************************)
\* an array of strings
Strings(content) == Array([i \in DOMAIN content |-> String(content[i])])

\* name = {content = [..], description = ".."}
EntryPair(e) ==
    Pair(e.name, Table(<<Pair(CONTENT, Strings(e.content)),
                         Pair(DESCRIPTION, String(Chars(e.description)))>>))

\* Broken = {content = ["q"]}
NoDescription == Pair(<<"B", "r", "o", "k", "e", "n">>, Table(<<Pair(CONTENT, Strings(<<KeyQ>>))>>))

\* Bare = {description = "Does nothing"}
NoContent ==
    Pair(<<"B", "a", "r", "e">>, Table(<<Pair(DESCRIPTION, String(Chars("Does nothing")))>>))

\* Odd = {description = 5}
NoString == Pair(<<"O", "d", "d">>, Table(<<Pair(DESCRIPTION, Integer(5))>>))

\* Seq = [["Ctrl", "C"], "Copies the current selection."]
Positional ==
    Pair(<<"S", "e", "q">>, Array(<<Strings(Copy.content), String(Chars(Copy.description))>>))

\* Flat = ["Ctrl", "C"]
Flat == Pair(<<"F", "l", "a", "t">>, Strings(<<Ctrl, KeyC>>))

Sections ==
    {Pair(RECALL_TABLE_NAME, <<Pair(PRIMARY_COLOR, Integer(15)), Pair(HIGHLIGHT_COLOR, Integer(14))>>),
     Pair(RECALL_TABLE_NAME, <<Pair(HIGHLIGHT_COLOR, Integer(256))>>),
     Pair(RECALL_TABLE_NAME, <<Pair(PRIMARY_COLOR, Integer(0))>>),
     Pair(RECALL_TABLE_NAME, <<Pair(HIGHLIGHT_COLOR, Integer(255))>>),
     Pair(RECALL_TABLE_NAME, <<Pair(HIGHLIGHT_COLOR, Integer(7)), Pair(PRIMARY_COLOR, String(<<"r", "e", "d">>))>>),
     Pair(RECALL_TABLE_NAME, <<>>),
     Pair(<<"Z", "e", "d">>, <<NoContent, EntryPair(Copy), NoDescription>>),
     Pair(<<"G", "e", "n", "e", "r", "a", "l">>, <<EntryPair(Copy), EntryPair(RecallClose)>>),
     Pair(<<"G", "e", "n", "e", "r", "a", "l">>, <<EntryPair(TermCopy), EntryPair(NoKeys), EntryPair(Copy)>>),
     Pair(<<"E", "m", "p", "t", "y", "P", "a", "g", "e">>, <<>>),
     Pair(<<"a", "p", "p", "s">>, <<EntryPair(RecallClose), EntryPair(Kanji)>>),
     Pair(<<"a", "p", "p", "s">>, <<EntryPair(Copy), NoDescription>>),
     Pair(<<"Z", "e", "d">>, <<EntryPair(Copy), EntryPair(Copy)>>),
     Pair(<<"a", "p", "p", "s">>, <<Positional, EntryPair(Copy)>>),
     Pair(<<"Z", "e", "d">>, <<EntryPair(Copy), NoString>>),
     Pair(<<"E", "m", "p", "t", "y", "P", "a", "g", "e">>, <<Flat, NoContent>>)}

Documents == UNION {[1..n -> Sections] : n \in 0..MaxSections}

(***************************************************************************)
(* src/src/main.rs                                                         *)
(***************************************************************************)
KeyModifiers == SUBSET {"SHIFT", "CONTROL", "ALT"}

Char(c) == <<"Char", c>>

KeyCode == {<<"Left">>, <<"Right">>, <<"Enter">>, Char("q"), Char("c"), Char("x")}

KeyEvent == [modifiers : KeyModifiers, code : KeyCode]

NoKey == [modifiers |-> {}, code |-> <<"Null">>]

\* the App method handle_key_event calls for a key, if any
Dispatch(k) ==
    IF k.modifiers = {"CONTROL"}
    THEN IF k.code = Char("c") THEN <<"quit", "Sigint">> ELSE <<"ignore", "None">>
    ELSE CASE k.code = <<"Left">> -> <<"decrement_page", "None">>
           [] k.code = <<"Right">> -> <<"increment_page", "None">>
           [] k.code = Char("q") -> <<"quit", "CloseKeyPressed">>
           [] OTHER -> <<"ignore", "None">>

handle_key_event(k) ==
    LET d == Dispatch(k)
    IN  CASE d[1] = "decrement_page" -> decrement_page
          [] d[1] = "increment_page" -> increment_page
          [] d[1] = "quit" -> quit(d[2])
          [] OTHER -> UNCHANGED appVars

\* main(), from App::new(config) on: ratatui::init() enters raw mode and
\* installs a panic hook that restores the terminal
InitTerminal ==
    /\ pc = "init"
    /\ pc' = "loop"
    /\ terminal' = "raw"
    /\ UNCHANGED <<frame, drawn, events, key>>
    /\ UNCHANGED appVars
    /\ UNCHANGED fileVars

\* run(): `while app.is_active()`, and the return of Ok(()) after the loop
LoopTest ==
    /\ pc = "loop"
    /\ pc' = IF is_active THEN "draw" ELSE "run_ok"
    /\ UNCHANGED <<terminal, frame, drawn, events, key>>
    /\ UNCHANGED appVars
    /\ UNCHANGED fileVars

\* run(): `terminal.draw(|f| ui(f, app))?`
Draw ==
    /\ pc = "draw"
    /\ drawn < MaxEvents
    /\ \/ /\ ui
          /\ drawn' = drawn + 1
          /\ IF get_current_page.ok
             THEN pc' = "read" /\ terminal' = terminal
             ELSE pc' = "panicked" /\ terminal' = "restored"
       \/ /\ pc' = "run_err"
          /\ UNCHANGED <<terminal, frame, drawn, panic>>
    /\ UNCHANGED <<events, key>>
    /\ UNCHANGED <<config, state, page_number, overflow_checks,
                   call, streak_start, streak_len>>
    /\ UNCHANGED fileVars

\* run(): `if let Event::Key(key) = event::read()? { handle_key_event(key, app) }`
ReadKey ==
    /\ pc = "read"
    /\ events < MaxEvents
    /\ \E k \in KeyEvent :
          /\ key' = k
          /\ handle_key_event(k)
    /\ events' = events + 1
    /\ IF panic' = "None"
       THEN pc' = "loop" /\ terminal' = terminal
       ELSE pc' = "panicked" /\ terminal' = "restored"
    /\ UNCHANGED <<frame, drawn>>
    /\ UNCHANGED fileVars

\* an event that is no key event: a resize, a mouse event, a focus change
ReadOther ==
    /\ pc = "read"
    /\ events < MaxEvents
    /\ events' = events + 1
    /\ key' = NoKey
    /\ pc' = "loop"
    /\ UNCHANGED <<terminal, frame, drawn>>
    /\ UNCHANGED appVars
    /\ UNCHANGED fileVars

\* event::read() fails and `?` returns the error from run()
ReadError ==
    /\ pc = "read"
    /\ pc' = "run_err"
    /\ UNCHANGED <<terminal, frame, drawn, events, key>>
    /\ UNCHANGED appVars
    /\ UNCHANGED fileVars

\* main(): `run(&mut terminal, &mut app)?` returns the error of run() from main
PropagateError ==
    /\ pc = "run_err"
    /\ pc' = "exit_err"
    /\ UNCHANGED <<terminal, frame, drawn, events, key>>
    /\ UNCHANGED appVars
    /\ UNCHANGED fileVars

\* main(): ratatui::restore(); Ok(())
Restore ==
    /\ pc = "run_ok"
    /\ pc' = "exit_ok"
    /\ terminal' = "restored"
    /\ UNCHANGED <<frame, drawn, events, key>>
    /\ UNCHANGED appVars
    /\ UNCHANGED fileVars

(***************************************************************************)
(* The specifications.                                                     *)
(***************************************************************************)
NotRead == [tag |-> "none"]

NotRun == [tag |-> "none"]

\* App::new(config), in either build profile
NewApp(configs) ==
    /\ config \in configs
    /\ state = Running
    /\ page_number = 0
    /\ overflow_checks \in BOOLEAN
    /\ panic = "None"
    /\ call = [op |-> "new", arg |-> "None"]
    /\ streak_start = 0
    /\ streak_len = 0
    /\ pc = "init"
    /\ terminal = "cooked"
    /\ frame = NoFrame
    /\ drawn = 0
    /\ events = 0
    /\ key = NoKey
    /\ document = <<>>
    /\ preserve_order = TomlPreserveOrder
    /\ read_result = NotRead
    /\ on_disk = NoFile
    /\ init_result = NotRun

\* the program: main() once read_from_config has returned a Config
Init == NewApp(Configs)

Next ==
    \/ InitTerminal
    \/ LoopTest
    \/ Draw
    \/ ReadKey
    \/ ReadOther
    \/ ReadError
    \/ PropagateError
    \/ Restore

Spec == Init /\ [][Next]_vars

\* the thread runs on unless it is blocked in event::read()
FairSpec == Spec /\ WF_vars(LoopTest) /\ WF_vars(Restore)

\* the methods of App, called in any order
CallIncrement ==
    panic = "None" /\ increment_page /\ UNCHANGED loopVars /\ UNCHANGED fileVars

CallDecrement ==
    panic = "None" /\ decrement_page /\ UNCHANGED loopVars /\ UNCHANGED fileVars

CallQuit ==
    \E reason \in QuitReason :
        panic = "None" /\ quit(reason) /\ UNCHANGED loopVars /\ UNCHANGED fileVars

InitApp == NewApp(Configs)

NextApp == CallIncrement \/ CallDecrement \/ CallQuit

SpecApp == InitApp /\ [][NextApp]_vars

\* ui() on the pages of a configuration, paging back and forth
Render ==
    /\ panic = "None"
    /\ ui
    /\ drawn' = 1
    /\ UNCHANGED <<pc, terminal, events, key>>
    /\ UNCHANGED <<config, state, page_number, overflow_checks,
                   call, streak_start, streak_len>>
    /\ UNCHANGED fileVars

InitUi == NewApp(UiConfigs \cup Configs)

NextUi == Render \/ CallIncrement \/ CallDecrement

SpecUi == InitUi /\ [][NextUi]_vars

\* main(): read_from_config(config_path)?, then App::new(config)
ReadFromConfig ==
    /\ pc = "start"
    /\ read_result' = read_from_config(document)
    /\ IF read_result'.tag = "ok"
       THEN pc' = "init" /\ config' = read_result'.value
       ELSE pc' = "exit_err" /\ config' = config
    /\ UNCHANGED <<state, page_number, overflow_checks, panic,
                   call, streak_start, streak_len>>
    /\ UNCHANGED <<terminal, frame, drawn, events, key>>
    /\ UNCHANGED <<document, preserve_order, on_disk, init_result>>

\* main() before the config file is read
InitConfig ==
    /\ config = Config(DEFAULT_PRIMARY_COLOR, DEFAULT_SECONDARY_COLOR, <<>>)
    /\ state = Running
    /\ page_number = 0
    /\ overflow_checks \in BOOLEAN
    /\ panic = "None"
    /\ call = [op |-> "new", arg |-> "None"]
    /\ streak_start = 0
    /\ streak_len = 0
    /\ pc = "start"
    /\ terminal = "cooked"
    /\ frame = NoFrame
    /\ drawn = 0
    /\ events = 0
    /\ key = NoKey
    /\ document \in Documents
    /\ preserve_order = TomlPreserveOrder
    /\ read_result = NotRead
    /\ on_disk = NoFile
    /\ init_result = NotRun

NextConfig == ReadFromConfig

SpecConfig == InitConfig /\ [][NextConfig]_vars

\* pages whose text is not read back as it was written, or not read at all
OddPages ==
    {Page(RECALL_TABLE_NAME, <<Copy>>),
     Page(<<"N", "o", "t", "e", "s">>,
          <<Entry(<<"C", "o", "p", "y", " ", "l", "i", "n", "e">>, <<KeyC>>, "Does nothing")>>),
     Page(<<"N", "o", "t", "e", "s">>, <<Entry(<<"S", "a", "y">>, <<KeyQ>>, "Says \"hi\"")>>),
     Page(<<"N", "o", "t", "e", "s">>, <<Entry(<<"O", "p", "e", "n">>, <<>>, "Opens C:\\new")>>),
     Page(<<"N", "o", "t", "e", "s">>, <<Entry(<<"B", "l", "a", "n", "k">>, <<KeyQ>>, "")>>)}

\* what may be at the config path before the program runs: nothing, an empty
\* file, a file written in the format of serialize_init_config, or one of
\* five files written by hand
Files ==
    {NoFile, FileOf(<<>>)}
        \cup {FileOf(serialize_init_config(c)) : c \in Configs}
        \cup {FileOf(serialize_init_config(
                  Config(DEFAULT_PRIMARY_COLOR, DEFAULT_SECONDARY_COLOR, <<p>>))) :
                 p \in UiPages \cup OddPages}
        \* CRLF line ends
        \cup {FileOf(<<"[", "P", "]", "\r", "\n", "k", " ", "=", " ", "{", "c", "o",
                     "n", "t", "e", "n", "t", " ", "=", " ", "[", "\"", "q", "\"",
                     "]", ",", " ", "d", "e", "s", "c", "r", "i", "p", "t", "i",
                     "o", "n", " ", "=", " ", "\"", "d", "\"", "}", "\r", "\n">>)}
        \* a byte order mark
        \cup {FileOf(<<"U+FEFF", "[", "P", "]", "\n", "k", " ", "=", " ", "{", "c", "o",
                     "n", "t", "e", "n", "t", " ", "=", " ", "[", "\"", "q", "\"",
                     "]", ",", " ", "d", "e", "s", "c", "r", "i", "p", "t", "i",
                     "o", "n", " ", "=", " ", "\"", "d", "\"", "}", "\n">>)}
        \* a control character in a comment
        \cup {FileOf(<<"[", "P", "]", " ", "#", " ", "c", "U+0001", "\n">>)}
        \* a description that is no string
        \cup {FileOf(<<"[", "P", "]", "\n", "k", " ", "=", " ", "{", "c", "o", "n",
                     "t", "e", "n", "t", " ", "=", " ", "[", "\"", "q", "\"", "]",
                     ",", " ", "d", "e", "s", "c", "r", "i", "p", "t", "i", "o",
                     "n", " ", "=", " ", "5", "}", "\n">>)}
        \* a content that is no array, behind a color with a comment
        \cup {FileOf(<<"[", "r", "e", "c", "a", "l", "l", "]", "\n", "p", "r", "i",
                     "m", "a", "r", "y", "_", "c", "o", "l", "o", "r", " ", "=",
                     " ", "1", " ", "#", " ", "r", "e", "d", "\n", "[", "P", "]",
                     "\n", "k", " ", "=", " ", "{", "c", "o", "n", "t", "e", "n",
                     "t", " ", "=", " ", "\"", "q", "\"", "}", "\n">>)}

\* main() with the subcommand init: handle_subcommands, init_config, return
InitCommand ==
    /\ pc = "start"
    /\ \E checked, created \in BOOLEAN :
       \E written \in IF checked /\ created /\ ~on_disk.exists
                      THEN 0..Len(serialize_init_config(ExampleConfig))
                      ELSE {0} :
          LET done == init_config(on_disk, checked, created, written)
          IN  /\ init_result' = done.result
              /\ on_disk' = done.file
              /\ pc' = IF done.result.tag = "ok" THEN "exit_ok" ELSE "exit_err"
    /\ UNCHANGED appVars
    /\ UNCHANGED <<terminal, frame, drawn, events, key>>
    /\ UNCHANGED <<document, preserve_order, read_result>>

\* main() without subcommand: read_from_config(config_path)?, then App::new(config),
\* for a file whose text is decided
ReadFromPath ==
    /\ pc = "start"
    /\ read_from_path(on_disk).tag # "undecided"
    /\ read_result' = read_from_path(on_disk)
    /\ document' = IF on_disk.exists /\ from_str(on_disk.text).ok
                   THEN from_str(on_disk.text).val ELSE <<>>
    /\ IF read_result'.tag = "ok"
       THEN pc' = "init" /\ config' = read_result'.value
       ELSE pc' = "exit_err" /\ config' = config
    /\ UNCHANGED <<state, page_number, overflow_checks, panic,
                   call, streak_start, streak_len>>
    /\ UNCHANGED <<terminal, frame, drawn, events, key>>
    /\ UNCHANGED <<preserve_order, on_disk, init_result>>

\* the program is started again after it has returned
NextInvocation ==
    /\ pc \in {"exit_ok", "exit_err"}
    /\ pc' = "start"
    /\ read_result' = NotRead
    /\ document' = <<>>
    /\ UNCHANGED appVars
    /\ UNCHANGED <<terminal, frame, drawn, events, key>>
    /\ UNCHANGED <<preserve_order, on_disk, init_result>>

\* before the program runs, for either build of the toml crate
InitFile ==
    /\ config = Config(DEFAULT_PRIMARY_COLOR, DEFAULT_SECONDARY_COLOR, <<>>)
    /\ state = Running
    /\ page_number = 0
    /\ overflow_checks \in BOOLEAN
    /\ panic = "None"
    /\ call = [op |-> "new", arg |-> "None"]
    /\ streak_start = 0
    /\ streak_len = 0
    /\ pc = "start"
    /\ terminal = "cooked"
    /\ frame = NoFrame
    /\ drawn = 0
    /\ events = 0
    /\ key = NoKey
    /\ document = <<>>
    /\ preserve_order \in BOOLEAN
    /\ read_result = NotRead
    /\ on_disk \in Files
    /\ init_result = NotRun

NextFile == InitCommand \/ ReadFromPath \/ NextInvocation

SpecFile == InitFile /\ [][NextFile]_vars

(***************************************************************************)
(* The navigation state machine (SpecApp).                                 *)
(***************************************************************************)
Min(a, b) == IF a <= b THEN a ELSE b

\* C1: with N >= 1 pages, after any sequence of increment_page and
\* decrement_page calls (and quit calls) from App::new the page index is in
\* [0, N-1] and get_current_page returns the page at that index.
C1_IndexInRange ==
    number_of_pages >= 1 =>
        /\ page_number \in 0..(number_of_pages - 1)
        /\ get_current_page.ok
        /\ get_current_page.page = config.pages[page_number + 1]

\* increment_page was called on the last page of several and left the index there
C1_Witness ==
    /\ number_of_pages >= 2
    /\ call.op = "increment_page"
    /\ streak_start = number_of_pages - 1
    /\ page_number = number_of_pages - 1

\* C2: with zero pages navigation is inert: after any sequence of calls the
\* index is 0 and no call has panicked.
C2_InertWithoutPages ==
    number_of_pages = 0 => (page_number = 0 /\ panic = "None")

\* C3: with N > 0 pages, k consecutive increment_page calls from index 0
\* leave the index at min(k, N-1), and k consecutive decrement_page calls from
\* index N-1 leave it at max(N-1-k, 0): one step per call, no wrap-around.
C3_RunsReachTheEnds ==
    number_of_pages > 0 =>
        /\ (call.op = "increment_page" /\ streak_start = 0)
              => page_number = Min(streak_len, number_of_pages - 1)
        /\ (call.op = "decrement_page" /\ streak_start = number_of_pages - 1)
              => page_number = Max(number_of_pages - 1 - streak_len, 0)

\* N increment_page calls in a row from index 0: N-1 that advance and one more
C3_Witness ==
    /\ number_of_pages >= 2
    /\ call.op = "increment_page"
    /\ streak_start = 0
    /\ streak_len = number_of_pages
    /\ page_number = number_of_pages - 1

\* C4: quit(reason) from Running yields Quitting(reason), and once the state
\* is Quitting no later call changes the lifecycle or the page index.
C4_QuittingIsAbsorbing ==
    [][/\ (state = Running /\ call'.op = "quit" /\ streak_len' = 1)
             => state' = Quitting(call'.arg)
       /\ state.tag = "Quitting"
             => (state' = state /\ page_number' = page_number)]_vars

(***************************************************************************)
(* The main loop (Spec, FairSpec).                                         *)
(***************************************************************************)
ExpectFailed == "Expected page number to reference an existing page"

\* a step of run() that read a key event and dispatched it
Dispatched == events' = events + 1 /\ key' # NoKey

Unchanged == page_number' = page_number /\ state' = state

\* C5: handle_key_event maps left-arrow to decrement, right-arrow to increment,
\* q without modifier to Quitting(CloseKeyPressed), control + c to
\* Quitting(Sigint), and ignores everything else, q with a modifier included;
\* it never fails.  (Arrows with a modifier and control + c with a further
\* modifier are left open here.)
C5_KeyMapping ==
    [][Dispatched =>
        LET m == key'.modifiers
            c == key'.code
        IN  /\ panic' = "None"
            /\ (c = <<"Left">> /\ m = {}) =>
                   /\ page_number' = IF page_number = 0 THEN 0 ELSE page_number - 1
                   /\ state' = state
            /\ (c = <<"Right">> /\ m = {}) =>
                   /\ page_number' = IF page_number + 1 >= number_of_pages
                                     THEN page_number ELSE page_number + 1
                   /\ state' = state
            /\ (c = Char("q") /\ m = {}) =>
                   /\ state' = Quitting("CloseKeyPressed")
                   /\ page_number' = page_number
            /\ (c = Char("c") /\ m = {"CONTROL"}) =>
                   /\ state' = Quitting("Sigint")
                   /\ page_number' = page_number
            /\ (c = Char("q") /\ m # {}) => Unchanged
            /\ (c = Char("c") /\ "CONTROL" \notin m) => Unchanged
            /\ c \in {<<"Enter">>, Char("x")} => Unchanged]_vars

\* C6: once the state is Quitting the loop draws no frame, reads no event and
\* changes nothing of the navigation state, and main returns; and run() returns
\* Ok only in the Quitting state.
C6_LoopStopsOnQuitting ==
    /\ [][state.tag = "Quitting" =>
            /\ drawn' = drawn
            /\ events' = events
            /\ frame' = frame
            /\ state' = state
            /\ page_number' = page_number]_vars
    /\ [](pc \in {"run_ok", "exit_ok"} => state.tag = "Quitting")
    /\ (state.tag = "Quitting" ~> pc = "exit_ok")

\* the loop has paged, then q was pressed, and main has returned
C6_Witness ==
    /\ pc = "exit_ok"
    /\ state = Quitting("CloseKeyPressed")
    /\ page_number = 1
    /\ events >= 2
    /\ drawn = events

\* C7: ui() never fails: it never panics, and with zero pages it draws the
\* "no configuration loaded" panel.
C7_RenderNeverFails ==
    /\ panic # ExpectFailed
    /\ (pc = "read" /\ number_of_pages = 0) => frame.widget = "Paragraph"

\* C8: whenever main returns after ratatui::init(), with Ok or with an error of
\* draw or of event::read, the terminal has been restored.
C8_TerminalRestored ==
    pc \in {"exit_ok", "exit_err"} => terminal = "restored"

(***************************************************************************)
(* The layout of the table (SpecUi).                                       *)
(***************************************************************************)
\* a width is stated for every character of every token of the entries
Measured(entries) ==
    \A i \in DOMAIN entries : \A j \in DOMAIN entries[i].content :
        StrWidth(entries[i].content[j]) # NotMeasured

RECURSIVE CellsOf(_)
CellsOf(content) ==
    IF content = <<>> THEN 0 ELSE StrWidth(Head(content)) + CellsOf(Tail(content))

\* the cells of a rendered shortcut: its key tokens and a '+' between neighbours
RenderedWidth(content) ==
    IF content = <<>> THEN 0 ELSE CellsOf(content) + Len(content) - 1

\* the page the last frame shows
ShownPage == config.pages[frame.page_counter.page]

WidestShortcut ==
    LET ws == {RenderedWidth(ShownPage.entries[i].content) :
                  i \in DOMAIN ShownPage.entries} \cup {0}
    IN  CHOOSE w \in ws : \A v \in ws : v <= w

\* Ctrl+Shift+C is on the shown page and every other shortcut there is shorter
CtrlShiftCWidest ==
    /\ \E i \in DOMAIN ShownPage.entries :
          ShownPage.entries[i].content = <<Ctrl, Shift, KeyC>>
    /\ \A i \in DOMAIN ShownPage.entries :
          \/ ShownPage.entries[i].content = <<Ctrl, Shift, KeyC>>
          \/ RenderedWidth(ShownPage.entries[i].content)
                < RenderedWidth(<<Ctrl, Shift, KeyC>>)

ShortcutColumnWidth == frame.table.widths[1].value

RECURSIVE Without(_, _)
Without(pairs, k) ==
    IF pairs = <<>> THEN <<>>
    ELSE IF Head(pairs).key = k THEN Without(Tail(pairs), k)
    ELSE <<Head(pairs)>> \o Without(Tail(pairs), k)

PageSections == Without(document, RECALL_TABLE_NAME)

\* C10: the pages of the built Config are the sections of the document other
\* than [recall], in document order, each with its entries in document order,
\* and no two pages have the same name.
C10_DocumentOrder ==
    read_result.tag = "ok" =>
        LET pages == read_result.value.pages
        IN  /\ [i \in DOMAIN pages |-> pages[i].name] = Keys(PageSections)
            /\ \A i \in DOMAIN pages :
                  [j \in DOMAIN pages[i].entries |-> pages[i].entries[j].name]
                      = Keys(PageSections[i].value)
            /\ \A i, j \in DOMAIN pages : pages[i].name = pages[j].name => i = j

\* a document with [recall] between two pages that are not in key order, the
\* entries of the first not in key order either, has been read
C10_Witness ==
    /\ read_result.tag = "ok"
    /\ Len(document) = 3
    /\ document[2].key = RECALL_TABLE_NAME
    /\ Len(read_result.value.pages) = 2
    /\ StrLess(read_result.value.pages[2].name, read_result.value.pages[1].name)
    /\ Len(read_result.value.pages[1].entries) = 3
    /\ StrLess(read_result.value.pages[1].entries[3].name,
               read_result.value.pages[1].entries[1].name)

(***************************************************************************)
(* Rejected documents (SpecConfig).                                        *)
(***************************************************************************)
\* the <<page, entry>> of the document whose entry lacks content or description
LackingEntries ==
    {<<document[i].key, document[i].value[j].key>> :
        <<i, j>> \in {<<i, j>> \in (DOMAIN document) \X (1..(MaxEntries + 2)) :
                         /\ document[i].key # RECALL_TABLE_NAME
                         /\ j \in DOMAIN document[i].value
                         /\ document[i].value[j].value.type = "table"
                         /\ ~(/\ Field(document[i].value[j].value.items, CONTENT).present
                              /\ Field(document[i].value[j].value.items,
                                       DESCRIPTION).present)}}

\* the entry is a table whose content, if given, is an array of strings and
\* whose description, if given, is a string
WellTyped(v) ==
    /\ v.type = "table"
    /\ \A k \in DOMAIN v.items :
          /\ v.items[k].key = CONTENT =>
                /\ v.items[k].value.type = "array"
                /\ \A n \in DOMAIN v.items[k].value.items :
                      v.items[k].value.items[n].type = "string"
          /\ v.items[k].key = DESCRIPTION => v.items[k].value.type = "string"

\* the document has no other defect than entries that lack a field
OnlyLackingEntries ==
    /\ ~Duplicates(document)
    /\ \A i \in DOMAIN document :
          /\ ~Duplicates(document[i].value)
          /\ document[i].key = RECALL_TABLE_NAME => RecallToml(document[i].value).tag = "ok"
          /\ document[i].key # RECALL_TABLE_NAME =>
                \A j \in DOMAIN document[i].value : WellTyped(document[i].value[j].value)

HasRead == read_result # NotRead

\* C11: a document in which a page entry lacks its description or its content
\* is rejected: read_from_config returns an error and no Config reaches the
\* App; an error of a page names the page and an entry of it; and whenever
\* the document has no other defect the error is that of a page, names a
\* page and an entry of it that lacks a field, and is the missing field.
C11_MissingFieldRejected ==
    (HasRead /\ LackingEntries # {}) =>
        /\ read_result.tag = "err"
        /\ pc = "exit_err"
        /\ config = Config(DEFAULT_PRIMARY_COLOR, DEFAULT_SECONDARY_COLOR, <<>>)
        /\ read_result.context = "Failed to parse page" =>
              \E i \in DOMAIN document :
                  /\ document[i].key = read_result.name
                  /\ read_result.keys # <<>>
                  /\ Field(document[i].value, read_result.keys[1]).present
        /\ OnlyLackingEntries =>
              /\ read_result.context = "Failed to parse page"
              /\ Len(read_result.keys) = 1
              /\ <<read_result.name, read_result.keys[1]>> \in LackingEntries
              /\ read_result.cause \in {MissingField(CONTENT), MissingField(DESCRIPTION)}

\* the third section of a document, after two good ones, has an entry without
\* description behind a good entry, and the error names the section and the entry
C11_Witness ==
    /\ HasRead
    /\ Len(document) = 3
    /\ document[1].key = RECALL_TABLE_NAME
    /\ document[3].value = <<EntryPair(Copy), NoDescription>>
    /\ read_result.tag = "err"
    /\ read_result.name = document[3].key
    /\ read_result.keys = <<NoDescription.key>>
    /\ read_result.cause = MissingField(DESCRIPTION)

(***************************************************************************)
(* Theme colors (SpecConfig).                                              *)
(***************************************************************************)
\* the values the [recall] sections of the document give to a field
Given(field) ==
    {document[i].value[j].value :
        <<i, j>> \in {<<i, j>> \in (DOMAIN document) \X (1..2) :
                         /\ document[i].key = RECALL_TABLE_NAME
                         /\ j \in DOMAIN document[i].value
                         /\ document[i].value[j].key = field}}

IsU8(v) == v.type = "integer" /\ v.int >= 0 /\ v.int <= 255

Resolved(field, color, default) ==
    /\ Given(field) = {} => color = default
    /\ \A v \in Given(field) : IsU8(v) /\ color = Indexed(v.int)

\* C12: each theme color is resolved on its own: without a [recall] section
\* or without the field it is exactly the default (White, Cyan), a value v in
\* 0..255 gives the indexed color v, and a value that is out of range or no
\* integer makes read_from_config fail instead of giving the default.
C12_ColorsPerField ==
    HasRead =>
        /\ read_result.tag = "ok" =>
              /\ Resolved(PRIMARY_COLOR, config.primary_color, <<"White">>)
              /\ Resolved(HIGHLIGHT_COLOR, config.highlight_color, <<"Cyan">>)
        /\ (\E v \in Given(PRIMARY_COLOR) \cup Given(HIGHLIGHT_COLOR) : ~IsU8(v)) =>
              /\ read_result.tag = "err"
              /\ pc = "exit_err"

\* a [recall] section that sets primary_color alone, behind a page: the
\* primary color is indexed, the highlight color the default
C12_Witness ==
    /\ HasRead
    /\ Len(document) = 2
    /\ document[2] = Pair(RECALL_TABLE_NAME, <<Pair(PRIMARY_COLOR, Integer(0))>>)
    /\ read_result.tag = "ok"
    /\ config.primary_color = Indexed(0)
    /\ config.highlight_color = <<"Cyan">>
    /\ Len(config.pages) = 1

(***************************************************************************)
(* Shortcut spans (SpecUi).                                                *)
(***************************************************************************)
KeySegment(token) == [content |-> token, fg |-> config.highlight_color, bold |-> TRUE]

Separator == [content |-> <<"+">>, fg |-> config.primary_color, bold |-> FALSE]

\* the line is t1 + t2 + ... + tk for the tokens given
Composed(line, tokens) ==
    /\ Len(line) = IF tokens = <<>> THEN 0 ELSE 2 * Len(tokens) - 1
    /\ \A j \in 1..Len(tokens) : line[2 * j - 1] = KeySegment(tokens[j])
    /\ \A j \in 1..(Len(tokens) - 1) : line[2 * j] = Separator

\* C13: the shortcut of every row of the table shown is composed of the k
\* tokens of its entry in their order, bold in the highlight color, with k - 1
\* '+' in the primary color between them and none before the first or after
\* the last; for k = 0 it has no segment at all; the row carries the
\* description of the entry in either case.
C13_ShortcutComposition ==
    frame.widget = "Table" =>
        /\ Len(frame.table.rows) = Len(ShownPage.entries)
        /\ \A i \in DOMAIN ShownPage.entries :
              /\ Composed(frame.table.rows[i].shortcut, ShownPage.entries[i].content)
              /\ frame.table.rows[i].description = ShownPage.entries[i].description

\* the table shown has a row of three keys with two separators and a row
\* without keys that carries its description
C13_Witness ==
    /\ frame.widget = "Table"
    /\ Len(frame.table.rows) = 2
    /\ ShownPage.entries[1].content = <<Ctrl, Shift, KeyC>>
    /\ Len(frame.table.rows[1].shortcut) = 5
    /\ ShownPage.entries[2].content = <<>>
    /\ frame.table.rows[2].shortcut = <<>>
    /\ frame.table.rows[2].description = "Nothing to press"

(***************************************************************************)
(* init, then read (SpecFile).                                             *)
(***************************************************************************)
\* the pages of the example: names, keys and descriptions by their characters
ExamplePages ==
    <<Page(<<"G", "e", "n", "e", "r", "a", "l">>,
           <<Entry(<<"C", "o", "p", "y">>, <<<<"C", "t", "r", "l">>, <<"C">>>>,
                   Chars("Copies the current selection.")),
             Entry(<<"R", "e", "c", "a", "l", "l", "C", "l", "o", "s", "e">>, <<<<"q">>>>,
                   Chars("Closes recall"))>>),
      Page(<<"E", "m", "p", "t", "y", "P", "a", "g", "e">>, <<>>)>>

\* the step is a run of the subcommand init
InitStep == pc = "start" /\ pc' # "start" /\ read_result' = NotRead

\* C14: once init_config has written the example to a path where no file was,
\* read_from_config accepts the file and gives a Config with the pages of the
\* example: General with Copy (Ctrl, C; "Copies the current selection.") and
\* RecallClose (q; "Closes recall"), and EmptyPage without entries, in this
\* order where the toml crate preserves order; init_config on a path where
\* a file exists fails and leaves the file as it is; and init_config on a path
\* where no file was succeeds only with the whole example written, and where
\* it fails it leaves no file or the first characters of the example.
C14_InitReadRoundTrip ==
    /\ [](init_result.tag = "ok" =>
             /\ on_disk = FileOf(serialize_init_config(ExampleConfig))
             /\ HasRead =>
                   /\ read_result.tag = "ok"
                   /\ pc = "init"
                   /\ Len(config.pages) = 2
                   /\ {config.pages[i] : i \in 1..2} = {ExamplePages[i] : i \in 1..2}
                   /\ preserve_order => config.pages = ExamplePages)
    /\ [][/\ (InitStep /\ on_disk.exists) =>
                (init_result'.tag = "err" /\ on_disk' = on_disk /\ pc' = "exit_err")
          /\ (InitStep /\ ~on_disk.exists) =>
                IF init_result'.tag = "ok"
                THEN on_disk' = FileOf(serialize_init_config(ExampleConfig))
                ELSE /\ pc' = "exit_err"
                     /\ \/ on_disk' = NoFile
                        \/ \E written \in 0..(Len(serialize_init_config(ExampleConfig)) - 1) :
                              on_disk' = FileOf(SubSeq(serialize_init_config(ExampleConfig),
                                                       1, written))]_vars

\* the example was written where no file was, the program was started again
\* and has read the pages of the example from it
C14_Witness ==
    /\ init_result.tag = "ok"
    /\ read_result.tag = "ok"
    /\ pc = "init"
    /\ config.pages = ExamplePages
    /\ config.primary_color = Indexed(15)
    /\ config.highlight_color = Indexed(14)

====
